---- MODULE Spec2Model ----
(***************************************************************************)
(* Activation-graph engine of the Helen Keller Activation Network: the     *)
(* node store, resonance matching, spreading activation, Hebbian weight    *)
(* update and the persistence codec, as implemented by the class           *)
(* HelenKellerActivationNetwork.                                           *)
(*                                                                         *)
(* Numbers.  JavaScript numbers are modelled in fixed point: the integer n *)
(* stands for n / Scale, and every product or quotient is truncated to the *)
(* grid (floor).  Math.tanh is computed from a table of its values, not    *)
(* taken as the identity.  Timestamps are integers in milliseconds,        *)
(* counted from an arbitrary origin well after time 0.                     *)
(*                                                                         *)
(* Maps.  A JavaScript Map is a sequence of <<key, value>> pairs in        *)
(* insertion order, with at most one pair per key.                         *)
(*                                                                         *)
(* Optional values.  An optional field is <<>> when absent (undefined, or  *)
(* null in the persisted record) and <<v>> when it holds v.                *)
(***************************************************************************)
EXTENDS Integers, Sequences, FiniteSets, TLC

\* ------------------------------------------------------------------ bounds

\* Number of learn / think calls in one behaviour.
MaxCalls == 2

\* Number of times the clock advances by one refractory period.
MaxTicks == 2

\* Value of Date.now() in the initial state, in ms (any value well above the
\* refractory period: real readings are about 1.7e12).
StartTime == 1000

\* ------------------------------------------------------- fixed-point numbers

\* 1.0 in fixed point.
Scale == 10000

\* a * b for fixed-point a and b.
Mul(a, b) == (a * b) \div Scale

\* Math.abs
Abs(x) == IF x < 0 THEN -x ELSE x

\* floor(Scale * tanh(k * TanhStep / Scale)) for k = 0 .. 250.
TanhKnots ==
  << 0, 199, 399, 599, 798, 996, 1194, 1390, 1586, 1780, 1973, 2165,
     2354, 2542, 2729, 2913, 3095, 3274, 3452, 3627, 3799, 3969, 4136, 4300,
     4462, 4621, 4777, 4929, 5079, 5226, 5370, 5511, 5648, 5783, 5915, 6043,
     6169, 6291, 6410, 6527, 6640, 6750, 6858, 6962, 7064, 7162, 7258, 7352,
     7442, 7530, 7615, 7698, 7778, 7856, 7931, 8004, 8075, 8144, 8210, 8274,
     8336, 8396, 8454, 8510, 8564, 8617, 8667, 8716, 8763, 8809, 8853, 8895,
     8936, 8976, 9014, 9051, 9086, 9121, 9154, 9186, 9216, 9246, 9274, 9302,
     9328, 9354, 9378, 9402, 9425, 9446, 9468, 9488, 9507, 9526, 9544, 9562,
     9579, 9595, 9610, 9625, 9640, 9654, 9667, 9680, 9692, 9704, 9715, 9726,
     9737, 9747, 9757, 9766, 9775, 9784, 9792, 9800, 9808, 9816, 9823, 9830,
     9836, 9843, 9849, 9855, 9860, 9866, 9871, 9876, 9881, 9885, 9890, 9894,
     9898, 9902, 9906, 9910, 9913, 9916, 9920, 9923, 9926, 9929, 9931, 9934,
     9937, 9939, 9941, 9944, 9946, 9948, 9950, 9952, 9954, 9956, 9957, 9959,
     9961, 9962, 9964, 9965, 9966, 9968, 9969, 9970, 9971, 9972, 9973, 9974,
     9975, 9976, 9977, 9978, 9979, 9980, 9981, 9981, 9982, 9983, 9983, 9984,
     9985, 9985, 9986, 9986, 9987, 9987, 9988, 9988, 9989, 9989, 9989, 9990,
     9990, 9991, 9991, 9991, 9992, 9992, 9992, 9993, 9993, 9993, 9993, 9994,
     9994, 9994, 9994, 9994, 9995, 9995, 9995, 9995, 9995, 9996, 9996, 9996,
     9996, 9996, 9996, 9996, 9996, 9997, 9997, 9997, 9997, 9997, 9997, 9997,
     9997, 9997, 9997, 9998, 9998, 9998, 9998, 9998, 9998, 9998, 9998, 9998,
     9998, 9998, 9998, 9998, 9998, 9998, 9998, 9998, 9999, 9999, 9999
  >>

\* Distance of two consecutive knots of TanhKnots: 0.02.
TanhStep == 200

\* Least argument at which Math.tanh returns exactly 1 in IEEE double
\* arithmetic (19.0616): below it the result is strictly less than 1.
TanhSat == 190616

\* Math.tanh for x >= 0: linear interpolation between the knots, the largest
\* value below 1 past the last knot, and 1 from TanhSat on.
TanhPos(x) ==
  IF x >= TanhSat THEN Scale
  ELSE IF x >= (Len(TanhKnots) - 1) * TanhStep THEN Scale - 1
  ELSE LET i == x \div TanhStep
           r == x % TanhStep
           lo == TanhKnots[i + 1]
           hi == TanhKnots[i + 2]
       IN lo + ((hi - lo) * r) \div TanhStep

\* Math.tanh with a closed range, [-1, 1], reached at once (as Math.sign does).
TanhSign(x) == IF x > 0 THEN Scale ELSE IF x < 0 THEN -Scale ELSE 0

\* Math.tanh: an odd function.
Tanh(x) == IF x < 0 THEN -TanhPos(-x) ELSE TanhPos(x)

RECURSIVE ISqrtBetween(_, _, _)
\* The r in lo .. hi - 1 with r * r <= n < (r + 1) * (r + 1), by bisection.
ISqrtBetween(n, lo, hi) ==
  IF hi - lo <= 1 THEN lo
  ELSE LET mid == (lo + hi) \div 2
       IN IF mid * mid <= n THEN ISqrtBetween(n, mid, hi)
          ELSE ISqrtBetween(n, lo, mid)

\* floor(sqrt(n)) for 0 <= n <= Scale * Scale.
ISqrt(n) == ISqrtBetween(n, 0, Scale + 1)

\* ------------------------------------------------------------ optional values

\* undefined, and null in the persisted record.
None == <<>>

\* A present value.
Some(v) == <<v>>

\* The truthiness test of JavaScript on an optional string: undefined, null
\* and the empty string are falsy.
TruthyString(o) == o # None /\ o[1] # ""

\* --------------------------------------------------------------------- maps

\* Map.prototype.has
MapHas(m, k) == \E i \in 1..Len(m) : m[i][1] = k

\* Index of key k in map m (k is a key of m).
MapIndex(m, k) == CHOOSE i \in 1..Len(m) : m[i][1] = k

\* Map.prototype.get, for a key of m.
MapGet(m, k) == m[MapIndex(m, k)][2]

\* Map.prototype.set: the value of an existing key is replaced in place, a new
\* key is appended.
MapSet(m, k, v) ==
  IF MapHas(m, k) THEN [m EXCEPT ![MapIndex(m, k)] = <<k, v>>]
  ELSE Append(m, <<k, v>>)

\* The keys of m as a set.
MapKeys(m) == {m[i][1] : i \in 1..Len(m)}

RECURSIVE MapFromPairsFrom(_, _, _)
\* new Map(pairs), from pair i on, added to m.
MapFromPairsFrom(pairs, i, m) ==
  IF i > Len(pairs) THEN m
  ELSE MapFromPairsFrom(pairs, i + 1, MapSet(m, pairs[i][1], pairs[i][2]))

\* new Map(pairs)
MapFromPairs(pairs) == MapFromPairsFrom(pairs, 1, <<>>)

\* ----------------------------------------------------- embedding service

\* The texts given to learn and think.
Texts == {"water", "fire", "steam", ""}

\* The vector the embedding service returns for a text.  "fire" and "water"
\* have cosine similarity exactly 0.7, "steam" is above 0.7 with both, and the
\* empty text gets the zero vector.
EmbeddingOf(text) ==
  CASE text = "water" -> <<3, 4, 0, 0>>
    [] text = "fire" -> <<1, 1, 1, 1>>
    [] text = "steam" -> <<2, 2, 1, 1>>
    [] text = "east" -> <<1, 0, 0, 0>>
    [] text = "west" -> <<-1, 0, 0, 0>>
    [] text = "north" -> <<0, 1, 0, 0>>
    [] text = "south" -> <<0, -1, 0, 0>>
    [] text = "up" -> <<0, 0, 1, 0>>
    [] text = "down" -> <<0, 0, -1, 0>>
    [] text = "late" -> <<0, 0, 0, 1>>
    [] text = "soon" -> <<0, 0, 0, -1>>
    [] text = "ice" -> <<-1, -1, -1, -1>>
    [] text = "smoke" -> <<1, 1, 1, 3>>
    [] OTHER -> <<0, 0, 0, 0>>

\* Values of Math.random().toString(36).substr(2, 9).
RandomSuffixes == {0, 1}

\* ---------------------------------------------------------- similarity

RECURSIVE Dot(_, _, _)
\* Sum of a[j] * b[j] for j = i .. a.length.
Dot(a, b, i) == IF i > Len(a) THEN 0 ELSE a[i] * b[i] + Dot(a, b, i + 1)

\* dotProduct / (normA * normB): the similarity without the square roots.
cosineSimilarityNoRoot(a, b) ==
  LET dotProduct == Dot(a, b, 1)
      norms == Dot(a, a, 1) * Dot(b, b, 1)
  IN IF norms = 0 THEN None ELSE Some((dotProduct * Scale) \div norms)

\* cosineSimilarity: dotProduct / (sqrt(normA) * sqrt(normB)) as an optional
\* fixed-point number, None standing for NaN (0 / 0 when a norm is zero).
cosineSimilarity(a, b) ==
  LET dotProduct == Dot(a, b, 1)
      norms == Dot(a, a, 1) * Dot(b, b, 1)
      square == ((dotProduct * dotProduct) * Scale) \div norms
      root == ISqrt(square * Scale)
  IN IF norms = 0 THEN None
     ELSE Some(IF dotProduct < 0 THEN -root ELSE root)

\* ------------------------------------------------------------------ nodes

\* The key of node i of the store, and its record.
IdAt(net, i) == net[i][1]
NodeAt(net, i) == net[i][2]

\* createNode: the node record.
NewNode(embedding, semanticContent) ==
  [ potential |-> Scale,
    connections |-> <<>>,
    decay |-> 9000,
    threshold |-> 5000,
    refractoryPeriod |-> 100,
    lastFired |-> 0,
    embedding |-> Some(embedding),
    semanticContent |-> semanticContent ]

\* createNode: the id, from Date.now() and Math.random().
NodeId(time, suffix) == <<time, suffix>>

\* createNode: the store after this.network.set(id, node).
createNode(net, time, suffix, embedding, semanticContent) ==
  MapSet(net, NodeId(time, suffix), NewNode(embedding, semanticContent))

\* ----------------------------------------------------- resonance matching

\* findResonantNodes: the similarity threshold, 0.7.
ResonanceThreshold == 7000

\* similarity >= threshold, false for NaN.
ReachesThreshold(similarity) ==
  similarity # None /\ similarity[1] >= ResonanceThreshold

\* similarity > threshold, false for NaN.
ExceedsThreshold(similarity) ==
  similarity # None /\ similarity[1] > ResonanceThreshold

\* findResonantNodes: whether the node resonates with the query vector.
Resonates(node, embedding) ==
  /\ node.embedding # None
  /\ ExceedsThreshold(cosineSimilarity(embedding, node.embedding[1]))

\* The ids of the resonating nodes of the store from position i on, in store
\* order.
RECURSIVE ResonantFrom(_, _, _)
ResonantFrom(net, embedding, i) ==
  IF i > Len(net) THEN <<>>
  ELSE IF Resonates(NodeAt(net, i), embedding)
       THEN <<IdAt(net, i)>> \o ResonantFrom(net, embedding, i + 1)
       ELSE ResonantFrom(net, embedding, i + 1)

\* The store after a loop that leaves the potentials as they are.
NotActivated(net, embedding) == net

\* findResonantNodes: the store after the loop, each resonating node's
\* potential set to its similarity.
Activated(net, embedding) ==
  [ i \in 1..Len(net) |->
      IF Resonates(NodeAt(net, i), embedding)
      THEN <<IdAt(net, i),
             [NodeAt(net, i) EXCEPT
                !.potential = cosineSimilarity(embedding, NodeAt(net, i).embedding[1])[1]]>>
      ELSE net[i] ]

\* findResonantNodes: the store and the list of node ids it returns.
findResonantNodes(net, embedding, originalText, time, suffix) ==
  LET resonantNodes == ResonantFrom(net, embedding, 1)
  IN IF Len(resonantNodes) = 0
     THEN [ network |-> createNode(Activated(net, embedding), time, suffix,
                                   embedding, originalText),
            nodes |-> <<NodeId(time, suffix)>> ]
     ELSE [ network |-> Activated(net, embedding), nodes |-> resonantNodes ]

\* ------------------------------------------------------------------ metrics

\* The node with the given id.
Node(net, id) == MapGet(net, id)

\* The store with the node of the given id replaced.
WithNode(net, id, node) == MapSet(net, id, node)

RECURSIVE CoherenceSum(_, _, _)
\* calculateCoherence: <<totalStrength, connections>> over the pairs
\* path[i], path[i + 1] from i on.
CoherenceSum(net, path, i) ==
  IF i >= Len(path) THEN <<0, 0>>
  ELSE LET rest == CoherenceSum(net, path, i + 1)
           from == Node(net, path[i]).connections
       IN IF MapHas(from, path[i + 1])
          THEN <<rest[1] + Abs(MapGet(from, path[i + 1]).weight), rest[2] + 1>>
          ELSE rest

\* The total strength divided by the number of all consecutive pairs.
calculateCoherenceOverAllPairs(net, path) ==
  IF Len(path) < 2 THEN Scale
  ELSE CoherenceSum(net, path, 1)[1] \div (Len(path) - 1)

\* A coherence that is 0 for a path of fewer than two nodes.
calculateCoherenceWithoutShortcut(net, path) ==
  LET sum == CoherenceSum(net, path, 1)
  IN IF sum[2] > 0 THEN sum[1] \div sum[2] ELSE 0

\* calculateCoherence
calculateCoherence(net, path) ==
  IF Len(path) < 2 THEN Scale
  ELSE LET sum == CoherenceSum(net, path, 1)
       IN IF sum[2] > 0 THEN sum[1] \div sum[2] ELSE 0

\* chaosThreshold in the initial state, 1.2.
InitialChaosThreshold == 12000

\* alpha, the regularization of the alignment bonus, 1.0.
Alpha == 10000

\* updateCoherenceMetrics, on the record of the engine's fields.
updateCoherenceMetrics(eng, path) ==
  IF Len(path) < 2 THEN eng
  ELSE LET instantCoherence == calculateCoherence(eng.network, path)
           score == Mul(9000, eng.coherenceScore) + Mul(1000, instantCoherence)
       IN [eng EXCEPT
             !.coherenceScore = score,
             !.chaosThreshold =
                IF score < 5000 /\ eng.chaosThreshold > Scale
                THEN Mul(eng.chaosThreshold, 9900)
                ELSE eng.chaosThreshold]

\* ---------------------------------------------------------------- propagation

\* A broad regime with half the spread.
HalfSpreadParams == [spread |-> 4000, threshold |-> 3000, decay |-> 9000]

\* The parameters think passes for System 1 and for System 2.
BroadParams == [spread |-> 8000, threshold |-> 3000, decay |-> 9000]
FocusedParams == [spread |-> 2000, threshold |-> 7000, decay |-> 1000]

\* The state before a loop that does not mark the start nodes as visited.
BeginPropagationUnvisited(eng, startNodes, params) ==
  [ activatedPath |-> startNodes,
    visited |-> {},
    wavefront |-> startNodes,
    params |-> params,
    isEdgeOfChaos |-> eng.chaosThreshold > Scale /\ eng.chaosThreshold < 15000 ]

\* A state before the loop whose chaos flag is read off the coherence score.
BeginPropagationByScore(eng, startNodes, params) ==
  [ activatedPath |-> startNodes,
    visited |-> {startNodes[i] : i \in 1..Len(startNodes)},
    wavefront |-> startNodes,
    params |-> params,
    isEdgeOfChaos |-> eng.coherenceScore = 0 ]

\* propagateActivation: the state before the loop.  eng is the record of the
\* engine's fields, run the record of the call's local variables.
BeginPropagation(eng, startNodes, params) ==
  [ activatedPath |-> startNodes,
    visited |-> {startNodes[i] : i \in 1..Len(startNodes)},
    wavefront |-> startNodes,
    params |-> params,
    isEdgeOfChaos |-> eng.chaosThreshold > Scale /\ eng.chaosThreshold < 15000 ]

\* propagateActivation: the body of the inner loop for one connection of the
\* dequeued node.  st holds eng and run.
PropagateTo(st, currentId, connectedId, connection, time) ==
  IF connectedId \in st.run.visited \/ ~MapHas(st.eng.network, connectedId) THEN st
  ELSE LET net == st.eng.network
           current == Node(net, currentId)
           connectedNode == Node(net, connectedId)
           baseActivation ==
             Mul(Mul(current.potential, connection.weight), st.run.params.spread)
           alignmentBonus ==
             IF st.run.isEdgeOfChaos THEN Mul(Alpha, Tanh(baseActivation)) ELSE 0
           activation == baseActivation + alignmentBonus
           potential == connectedNode.potential + activation
       IN IF potential > st.run.params.threshold
          THEN LET fired == [connectedNode EXCEPT !.potential = potential,
                                                  !.lastFired = time]
                   path == Append(st.run.activatedPath, connectedId)
               IN [ eng |-> updateCoherenceMetrics(
                              [st.eng EXCEPT !.network = WithNode(net, connectedId, fired)],
                              path),
                    run |-> [st.run EXCEPT
                               !.wavefront = Append(@, connectedId),
                               !.activatedPath = path,
                               !.visited = @ \cup {connectedId}] ]
          ELSE [st EXCEPT !.eng.network =
                  WithNode(net, connectedId,
                           [connectedNode EXCEPT !.potential = potential])]

\* An inner loop that feeds the first unvisited node of the store, connected
\* or not.
PropagateEverywhere(st, currentId, connections, i, time) ==
  LET net == st.eng.network
      unvisited == {k \in 1..Len(net) : IdAt(net, k) \notin st.run.visited}
  IN IF unvisited = {} THEN st
     ELSE PropagateTo(st, currentId,
                      IdAt(net, CHOOSE k \in unvisited : \A l \in unvisited : k <= l),
                      [weight |-> Scale, lastFired |-> time, plasticityRate |-> 1000],
                      time)

RECURSIVE PropagateFrom(_, _, _, _, _)
\* propagateActivation: the inner loop over the connections of the dequeued
\* node, from connection i on.
PropagateFrom(st, currentId, connections, i, time) ==
  IF i > Len(connections) THEN st
  ELSE PropagateFrom(
         PropagateTo(st, currentId, connections[i][1], connections[i][2], time),
         currentId, connections, i + 1, time)

\* A check that finds no node refractory.
NeverRefractory(node, time) == FALSE

\* now - current.lastFired < current.refractoryPeriod
Refractory(node, time) == time - node.lastFired < node.refractoryPeriod

\* An iteration of the outer loop without the refractory check.
PropagateStepUnchecked(eng, run, time) ==
  LET currentId == Head(run.wavefront)
      decayed == [Node(eng.network, currentId) EXCEPT
                    !.potential = Mul(@, run.params.decay)]
      st == [ eng |-> [eng EXCEPT !.network = WithNode(@, currentId, decayed)],
              run |-> [run EXCEPT !.wavefront = Tail(@)] ]
  IN PropagateFrom(st, currentId, decayed.connections, 1, time)

\* propagateActivation: one iteration of the outer loop, with Date.now()
\* returning time.
PropagateStep(eng, run, time) ==
  LET currentId == Head(run.wavefront)
      decayed == [Node(eng.network, currentId) EXCEPT
                    !.potential = Mul(@, run.params.decay)]
      st == [ eng |-> [eng EXCEPT !.network = WithNode(@, currentId, decayed)],
              run |-> [run EXCEPT !.wavefront = Tail(@)] ]
  IN IF Refractory(decayed, time) THEN st
     ELSE PropagateFrom(st, currentId, decayed.connections, 1, time)

RECURSIVE PropagateLoop(_, _)
\* propagateActivation: the while loop from the state st on, with Date.now()
\* returning time in every iteration.
PropagateLoop(st, time) ==
  IF Len(st.run.wavefront) = 0 THEN st
  ELSE PropagateLoop(PropagateStep(st.eng, st.run, time), time)

\* propagateActivation: the engine's fields and the locals when it returns.
propagateActivation(eng, startNodes, params, time) ==
  PropagateLoop([eng |-> eng, run |-> BeginPropagation(eng, startNodes, params)], time)

\* ------------------------------------------------------------------ plasticity

\* A connection record created with half the weight range.
NewConnectionHalf(time) == [weight |-> 5000, lastFired |-> time, plasticityRate |-> 1000]

\* strengthenPath: a connection record as created.
NewConnection(time) == [weight |-> 1000, lastFired |-> time, plasticityRate |-> 1000]

\* current.connections with a connection to nextId, created when missing.
EnsureConnection(connections, nextId, time) ==
  IF MapHas(connections, nextId) THEN connections
  ELSE MapSet(connections, nextId, NewConnection(time))

\* The gain of the reverse connection, 0.7.
ReverseGain == 7000

\* The factor of the anti-Hebbian decay, 0.99.
UnusedDecay == 9900

\* strengthenPath: the body of the first loop for the pair currentId, nextId.
StrengthenPair(net, currentId, nextId, time) ==
  LET current == Node(net, currentId)
      forward == EnsureConnection(current.connections, nextId, time)
      connection == MapGet(forward, nextId)
      strengthening ==
        Mul(Mul(connection.plasticityRate, current.potential), Node(net, nextId).potential)
      net1 == WithNode(net, currentId,
                [current EXCEPT !.connections =
                   MapSet(forward, nextId,
                          [connection EXCEPT
                             !.weight = Tanh(connection.weight + strengthening),
                             !.lastFired = time])])
      next == Node(net1, nextId)
      backward == EnsureConnection(next.connections, currentId, time)
      reverseConnection == MapGet(backward, currentId)
  IN WithNode(net1, nextId,
       [next EXCEPT !.connections =
          MapSet(backward, currentId,
                 [reverseConnection EXCEPT
                    !.weight = Tanh(reverseConnection.weight
                                    + Mul(strengthening, ReverseGain))])])

RECURSIVE StrengthenPairsFrom(_, _, _, _)
\* strengthenPath: the first loop, from index i on.
StrengthenPairsFrom(net, path, i, time) ==
  IF i >= Len(path) THEN net
  ELSE StrengthenPairsFrom(StrengthenPair(net, path[i], path[i + 1], time),
                           path, i + 1, time)

\* A second pass that weakens every connection of the node.
WeakenAll(node, path) ==
  [node EXCEPT !.connections =
     [ j \in 1..Len(node.connections) |->
         <<node.connections[j][1],
           [node.connections[j][2] EXCEPT !.weight = Mul(@, UnusedDecay)]>> ]]

\* strengthenPath: the inner loop of the second pass, over the connections of
\* one node of the path.
WeakenUnused(node, path) ==
  [node EXCEPT !.connections =
     [ j \in 1..Len(node.connections) |->
         IF \E k \in 1..Len(path) : path[k] = node.connections[j][1]
         THEN node.connections[j]
         ELSE <<node.connections[j][1],
                [node.connections[j][2] EXCEPT !.weight = Mul(@, UnusedDecay)]>> ]]

RECURSIVE WeakenFrom(_, _, _)
\* strengthenPath: the second pass, from index i of the path on.
WeakenFrom(net, path, i) ==
  IF i > Len(path) THEN net
  ELSE WeakenFrom(WithNode(net, path[i], WeakenUnused(Node(net, path[i]), path)),
                  path, i + 1)

\* strengthenPath
strengthenPath(net, path, time) ==
  WeakenFrom(StrengthenPairsFrom(net, path, 1, time), path, 1)

\* ----------------------------------------------------------------- persistence

\* saveNetwork: the entry written for one node.
SavedNode(node) ==
  [ potential |-> node.potential,
    decay |-> node.decay,
    threshold |-> node.threshold,
    refractoryPeriod |-> node.refractoryPeriod,
    lastFired |-> node.lastFired,
    connections |-> node.connections,
    embedding |-> node.embedding,
    semanticContent |->
      IF TruthyString(node.semanticContent) THEN node.semanticContent ELSE None ]

\* saveNetwork: the record written to networkPath, one entry per node, the
\* entry's value being optional as a JSON value may be null.
saveNetwork(net) ==
  [ kind |-> "json",
    entries |-> [i \in 1..Len(net) |-> <<IdAt(net, i), Some(SavedNode(NodeAt(net, i)))>>] ]

\* loadNetwork: the node built from one entry's value.
LoadedNode(nodeData) ==
  [ potential |-> nodeData.potential,
    connections |-> MapFromPairs(nodeData.connections),
    decay |-> nodeData.decay,
    threshold |-> nodeData.threshold,
    refractoryPeriod |-> nodeData.refractoryPeriod,
    lastFired |-> nodeData.lastFired,
    embedding |-> nodeData.embedding,
    semanticContent |->
      IF TruthyString(nodeData.semanticContent) THEN nodeData.semanticContent ELSE None ]

RECURSIVE LoadEntriesFrom(_, _, _)
\* loadNetwork: the loop over the entries from entry i on; reading a field of
\* a null value throws, which ends the loop with the nodes set so far.
LoadEntriesFrom(net, entries, i) ==
  IF i > Len(entries) THEN net
  ELSE IF entries[i][2] = None THEN net
  ELSE LoadEntriesFrom(MapSet(net, entries[i][1], LoadedNode(entries[i][2][1])),
                       entries, i + 1)

\* loadNetwork: the store after it; a file that does not parse throws before
\* the loop.
loadNetwork(net, file) ==
  IF file.kind = "json" THEN LoadEntriesFrom(net, file.entries, 1) ELSE net

\* initialize: the store after it; the file is read only when it exists.
initialize(net, file) ==
  IF file.kind # "missing" THEN loadNetwork(net, file) ELSE net

\* extractPattern: the narrative, as the list of the parts it joins.
Narrative(net, path) ==
  LET semanticParts ==
        SelectSeq([i \in 1..Len(path) |-> Node(net, path[i]).semanticContent],
                  TruthyString)
  IN IF Len(semanticParts) > 0
     THEN [i \in 1..Len(semanticParts) |-> semanticParts[i][1]]
     ELSE <<"No semantic content available">>

\* think: the coherence above which System 1 answers, 0.7.
CoherenceThreshold == 7000

\* learn: the store is saved when its size is a multiple of this.
SaveEvery == 10

\* ------------------------------------------------------------------ state

\* The requests one engine instance may be serving, and the one request of a
\* front end that awaits each call before it starts the next.
Procs == {1, 2}
Serial == {1}

VARIABLES
  network,          \* this.network: Map of node id to node
  coherenceScore,   \* this.coherenceScore
  chaosThreshold,   \* this.chaosThreshold
  isInitialized,    \* this.isInitialized
  file,             \* the contents of networkPath
  now,              \* the value Date.now() returns
  calls,            \* number of learn / think calls started
  running,          \* the request whose synchronous code is executing, or 0
  call,             \* per request: position and local variables
  process           \* the front end of the process and its networkInstance

vars == <<network, coherenceScore, chaosThreshold, isInitialized, file, now,
          calls, running, call, process>>

\* The fields of the engine the propagation reads and writes.
Eng == [network |-> network, coherenceScore |-> coherenceScore,
        chaosThreshold |-> chaosThreshold]

\* The local variables of propagateActivation outside a call of it.
NoRun == [activatedPath |-> <<>>, visited |-> {}, wavefront |-> <<>>,
          params |-> BroadParams, isEdgeOfChaos |-> FALSE]

\* A request that is not running.
IdleCall == [ pc |-> "idle", op |-> "none", text |-> "", embedding |-> <<>>,
              resonantNodes |-> <<>>, created |-> FALSE, run |-> NoRun,
              system1Path |-> <<>>,
              model |-> "none", narrative |-> <<>>, outcome |-> "none" ]

\* A process that uses the engine directly: no front end, networkInstance
\* null.
EngineProcess == [frontEnd |-> "engine", constructed |-> 0, initializations |-> 0]

\* A file that does not exist, and one that JSON.parse rejects.
MissingFile == [kind |-> "missing", entries |-> <<>>]
UnparseableFile == [kind |-> "unparseable", entries |-> <<>>]

\* learn(text) on the store net, with the clock at time.
Learned(net, text, time, suffix) ==
  LET found == findResonantNodes(net, EmbeddingOf(text), Some(text), time, suffix)
  IN strengthenPath(found.network, found.nodes, time)

\* The stores of an earlier process that learned "water" and "fire", and then
\* "steam", which connects the two.
EarlierStore == Learned(Learned(<<>>, "water", StartTime - 500, 0), "fire", StartTime - 400, 0)
EarlierConnectedStore == Learned(EarlierStore, "steam", StartTime - 300, 0)

RECURSIVE LearnedAll(_, _, _, _)
\* learn of texts[i], texts[i + 1], ... on the store net, ten milliseconds
\* apart from time on.
LearnedAll(net, texts, i, time) ==
  IF i > Len(texts) THEN net
  ELSE LearnedAll(Learned(net, texts[i], time, 0), texts, i + 1, time + 10)

\* The stores of an earlier process that learned nine and ten concepts none
\* of which resonates with another.
NineConcepts == <<"east", "west", "north", "south", "up", "down", "late", "soon", "fire">>
NineStore == LearnedAll(<<>>, NineConcepts, 1, StartTime - 900)
TenStore == LearnedAll(<<>>, NineConcepts \o <<"ice">>, 1, StartTime - 900)

\* A file that parses and whose second entry has the value null.
DamagedFile ==
  [ kind |-> "json",
    entries |-> << saveNetwork(EarlierStore).entries[1], <<NodeId(StartTime - 400, 0), None>> >> ]

\* The files networkPath may hold when the engine is constructed.
InitialFiles ==
  { MissingFile, UnparseableFile, DamagedFile,
    saveNetwork(EarlierStore), saveNetwork(EarlierConnectedStore) }

Init ==
  /\ network = <<>>
  /\ coherenceScore = 0
  /\ chaosThreshold = InitialChaosThreshold
  /\ isInitialized = FALSE
  /\ file \in InitialFiles
  /\ now = StartTime
  /\ calls = 0
  /\ running = 0
  /\ call = [p \in Procs |-> IdleCall]
  /\ process = EngineProcess

\* ------------------------------------------------------------------ actions

\* initialize(): loads the file when it exists.
Initialize ==
  /\ running = 0
  /\ ~isInitialized
  /\ network' = initialize(network, file)
  /\ isInitialized' = TRUE
  /\ UNCHANGED <<process, coherenceScore, chaosThreshold, file, now, calls, running, call>>

\* learn(text) or think(text) up to the request to the embedding service,
\* initializing the engine first when it is not initialized.
Begin(p, op, text) ==
  /\ running = 0
  /\ call[p].pc = "idle"
  /\ calls < MaxCalls
  /\ calls' = calls + 1
  /\ network' = IF isInitialized THEN network ELSE initialize(network, file)
  /\ isInitialized' = TRUE
  /\ call' = [call EXCEPT ![p] = [IdleCall EXCEPT !.pc = "embedding", !.op = op,
                                                  !.text = text]]
  /\ UNCHANGED <<process, coherenceScore, chaosThreshold, file, now, running>>

Learn(p) == \E text \in Texts : Begin(p, "learn", text)

Think(p) == \E text \in Texts : Begin(p, "think", text)

\* embedText returns the vector of the text; the synchronous code up to the
\* next await starts.
EmbedReturn(p) ==
  /\ running = 0
  /\ call[p].pc = "embedding"
  /\ running' = p
  /\ call' = [call EXCEPT ![p].pc = "resonate",
                          ![p].embedding = EmbeddingOf(call[p].text)]
  /\ UNCHANGED <<process, network, coherenceScore, chaosThreshold, isInitialized, file, now,
                 calls>>

\* A failure of the embedding service answered with the vector of the empty
\* text.
EmbedSubstitute(p) ==
  /\ running = 0
  /\ call[p].pc = "embedding"
  /\ running' = p
  /\ call' = [call EXCEPT ![p].pc = "resonate", ![p].embedding = EmbeddingOf("")]
  /\ UNCHANGED <<process, network, coherenceScore, chaosThreshold, isInitialized, file, now,
                 calls>>

\* embedText throws: learn or think ends with the error.
EmbedFail(p) ==
  /\ running = 0
  /\ call[p].pc = "embedding"
  /\ call' = [call EXCEPT ![p].pc = "idle", ![p].outcome = "error"]
  /\ UNCHANGED <<process, network, coherenceScore, chaosThreshold, isInitialized, file, now,
                 calls, running>>

\* findResonantNodes, and for think the start of the System 1 propagation.
FindResonantNodes(p) ==
  /\ running = p
  /\ call[p].pc = "resonate"
  /\ \E suffix \in RandomSuffixes :
       LET found == findResonantNodes(network, call[p].embedding,
                                      Some(call[p].text), now, suffix)
       IN /\ network' = found.network
          /\ call' = [call EXCEPT
               ![p].resonantNodes = found.nodes,
               ![p].created = Len(ResonantFrom(network, call[p].embedding, 1)) = 0,
               ![p].pc = IF call[p].op = "learn" THEN "strengthen" ELSE "broad",
               ![p].run = IF call[p].op = "learn" THEN NoRun
                          ELSE BeginPropagation(Eng, found.nodes, BroadParams)]
  /\ UNCHANGED <<process, coherenceScore, chaosThreshold, isInitialized, file, now, calls,
                 running>>

\* propagateActivation: one iteration of the while loop.
Propagate(p) ==
  /\ running = p
  /\ call[p].pc \in {"broad", "focused"}
  /\ Len(call[p].run.wavefront) > 0
  /\ LET st == PropagateStep(Eng, call[p].run, now)
     IN /\ network' = st.eng.network
        /\ coherenceScore' = st.eng.coherenceScore
        /\ chaosThreshold' = st.eng.chaosThreshold
        /\ call' = [call EXCEPT ![p].run = st.run]
  /\ UNCHANGED <<process, isInitialized, file, now, calls, running>>

\* think: the System 1 propagation has returned; extractPattern and the choice
\* of the system, up to the request to the completion service (System 1) or
\* the start of the System 2 propagation.
ExtractBroad(p) ==
  /\ running = p
  /\ call[p].pc = "broad"
  /\ Len(call[p].run.wavefront) = 0
  /\ LET system1Path == call[p].run.activatedPath
     IN IF calculateCoherence(network, system1Path) > CoherenceThreshold
        THEN /\ call' = [call EXCEPT ![p].pc = "generating",
                                     ![p].system1Path = system1Path,
                                     ![p].model = "fast",
                                     ![p].narrative = Narrative(network, system1Path)]
             /\ running' = 0
        ELSE /\ call' = [call EXCEPT
                  ![p].pc = "focused",
                  ![p].system1Path = system1Path,
                  ![p].run = BeginPropagation(Eng, call[p].resonantNodes, FocusedParams)]
             /\ running' = running
  /\ UNCHANGED <<process, network, coherenceScore, chaosThreshold, isInitialized, file, now,
                 calls>>

\* think: the System 2 propagation has returned; extractPattern, up to the
\* request to the completion service.
ExtractFocused(p) ==
  /\ running = p
  /\ call[p].pc = "focused"
  /\ Len(call[p].run.wavefront) = 0
  /\ call' = [call EXCEPT ![p].pc = "generating",
                          ![p].model = "reason",
                          ![p].narrative = Narrative(network, call[p].run.activatedPath)]
  /\ running' = 0
  /\ UNCHANGED <<process, network, coherenceScore, chaosThreshold, isInitialized, file, now,
                 calls>>

\* generateResponse returns a non-empty response.
GenerateReturn(p) ==
  /\ running = 0
  /\ call[p].pc = "generating"
  /\ running' = p
  /\ call' = [call EXCEPT ![p].pc = "strengthen"]
  /\ UNCHANGED <<process, network, coherenceScore, chaosThreshold, isInitialized, file, now,
                 calls>>

\* think that strengthens the System 1 path although the completion service
\* has failed.
GenerateFailStrengthening(p) ==
  /\ running = 0
  /\ call[p].pc = "generating"
  /\ network' = strengthenPath(network, call[p].system1Path, now)
  /\ call' = [call EXCEPT ![p].pc = "idle", ![p].outcome = "error"]
  /\ UNCHANGED <<process, coherenceScore, chaosThreshold, isInitialized, file, now,
                 calls, running>>

\* generateResponse throws (the model fails or returns empty content): think
\* ends with the error.
GenerateFail(p) ==
  /\ running = 0
  /\ call[p].pc = "generating"
  /\ call' = [call EXCEPT ![p].pc = "idle", ![p].outcome = "error"]
  /\ UNCHANGED <<process, network, coherenceScore, chaosThreshold, isInitialized, file, now,
                 calls, running>>

\* The path of the propagation that ran last.
LastPropagatedPath(c) == IF c.op = "learn" THEN c.resonantNodes ELSE c.run.activatedPath

\* The path learn and think pass to strengthenPath.
PathToStrengthen(c) == IF c.op = "learn" THEN c.resonantNodes ELSE c.system1Path

\* strengthenPath and the rest of learn (the periodic save) or think.
StrengthenPath(p) ==
  /\ running = p
  /\ call[p].pc = "strengthen"
  /\ network' = strengthenPath(network, PathToStrengthen(call[p]), now)
  /\ file' = IF call[p].op = "learn" /\ Len(network') % SaveEvery = 0
             THEN saveNetwork(network') ELSE file
  /\ running' = 0
  /\ call' = [call EXCEPT ![p].pc = "idle", ![p].outcome = "ok"]
  /\ UNCHANGED <<process, coherenceScore, chaosThreshold, isInitialized, now, calls>>

\* saveNetwork(), called by a front end between requests.
SaveNetwork ==
  /\ running = 0
  /\ file' = saveNetwork(network)
  /\ UNCHANGED <<process, network, coherenceScore, chaosThreshold, isInitialized, now, calls,
                 running, call>>

\* The process ends and a new engine is constructed on the same file.
Restart ==
  /\ running = 0
  /\ isInitialized
  /\ \A p \in Procs : call[p].pc = "idle"
  /\ network' = <<>>
  /\ coherenceScore' = 0
  /\ chaosThreshold' = InitialChaosThreshold
  /\ isInitialized' = FALSE
  /\ call' = [p \in Procs |-> IdleCall]
  /\ UNCHANGED <<process, file, now, calls, running>>

\* Time passes: one refractory period.
Tick ==
  /\ now < StartTime + MaxTicks * 100
  /\ now' = now + 100
  /\ UNCHANGED <<process, network, coherenceScore, chaosThreshold, isInitialized, file, calls,
                 running, call>>

\* One engine instance in one process, serving one request at a time.
Next ==
  \/ Initialize
  \/ \E p \in Serial : Learn(p)
  \/ \E p \in Serial : Think(p)
  \/ \E p \in Serial : EmbedReturn(p)
  \/ \E p \in Serial : EmbedFail(p)
  \/ \E p \in Serial : FindResonantNodes(p)
  \/ \E p \in Serial : Propagate(p)
  \/ \E p \in Serial : ExtractBroad(p)
  \/ \E p \in Serial : ExtractFocused(p)
  \/ \E p \in Serial : GenerateReturn(p)
  \/ \E p \in Serial : GenerateFail(p)
  \/ \E p \in Serial : StrengthenPath(p)
  \/ Tick

Spec == Init /\ [][Next]_vars

\* The same, with the file saved by the front end and the process restarted
\* on it.
NextRestart == Next \/ SaveNetwork \/ Restart

SpecRestart == Init /\ [][NextRestart]_vars

\* One engine instance shared by requests that arrive while others are
\* suspended on the embedding or the completion service.
NextConcurrent ==
  \/ Initialize
  \/ \E p \in Procs : Learn(p)
  \/ \E p \in Procs : Think(p)
  \/ \E p \in Procs : EmbedReturn(p)
  \/ \E p \in Procs : EmbedFail(p)
  \/ \E p \in Procs : FindResonantNodes(p)
  \/ \E p \in Procs : Propagate(p)
  \/ \E p \in Procs : ExtractBroad(p)
  \/ \E p \in Procs : ExtractFocused(p)
  \/ \E p \in Procs : GenerateReturn(p)
  \/ \E p \in Procs : GenerateFail(p)
  \/ \E p \in Procs : StrengthenPath(p)
  \/ Tick

SpecConcurrent == Init /\ [][NextConcurrent]_vars

\* The engine constructed on the file of a store of nine or of ten concepts.
InitSaving ==
  /\ network = <<>>
  /\ coherenceScore = 0
  /\ chaosThreshold = InitialChaosThreshold
  /\ isInitialized = FALSE
  /\ file \in {saveNetwork(NineStore), saveNetwork(TenStore)}
  /\ now = StartTime
  /\ calls = 0
  /\ running = 0
  /\ call = [p \in Procs |-> IdleCall]
  /\ process = EngineProcess

\* The calls on these stores: no text matches two of their nodes, so that no
\* path has a second node and think never runs its System 2 propagation.
NextSaving ==
  \/ Initialize
  \/ \E p \in Serial : Learn(p)
  \/ \E p \in Serial : Think(p)
  \/ \E p \in Serial : EmbedReturn(p)
  \/ \E p \in Serial : EmbedFail(p)
  \/ \E p \in Serial : FindResonantNodes(p)
  \/ \E p \in Serial : Propagate(p)
  \/ \E p \in Serial : ExtractBroad(p)
  \/ \E p \in Serial : GenerateReturn(p)
  \/ \E p \in Serial : GenerateFail(p)
  \/ \E p \in Serial : StrengthenPath(p)
  \/ Tick

SpecSaving == InitSaving /\ [][NextSaving]_vars

\* The number of think calls of the front end below.
MaxRepeats == 16

\* The engine constructed on the file of the connected store.
InitRepeat == Init /\ file = saveNetwork(EarlierConnectedStore)

\* think("water") up to the request to the embedding service.
ThinkAgain(p) ==
  /\ running = 0
  /\ call[p].pc = "idle"
  /\ calls < MaxRepeats
  /\ calls' = calls + 1
  /\ network' = IF isInitialized THEN network ELSE initialize(network, file)
  /\ isInitialized' = TRUE
  /\ call' = [call EXCEPT ![p] = [IdleCall EXCEPT !.pc = "embedding", !.op = "think",
                                                  !.text = "water"]]
  /\ UNCHANGED <<process, coherenceScore, chaosThreshold, file, now, running>>

\* A front end that asks the same question again and again, every call
\* served to its end.
NextRepeat ==
  \/ \E p \in Serial : ThinkAgain(p)
  \/ \E p \in Serial : EmbedReturn(p)
  \/ \E p \in Serial : FindResonantNodes(p)
  \/ \E p \in Serial : Propagate(p)
  \/ \E p \in Serial : ExtractBroad(p)
  \/ \E p \in Serial : ExtractFocused(p)
  \/ \E p \in Serial : GenerateReturn(p)
  \/ \E p \in Serial : StrengthenPath(p)

SpecRepeat == InitRepeat /\ [][NextRepeat]_vars

\* ------------------------------------------------------ resonance matching

\* The step of request p is its call of findResonantNodes.
Matching(p) == call[p].pc = "resonate" /\ call'[p].pc # "resonate"

\* Node i of the store has an embedding whose similarity with q is a number
\* above 0.7.
Above(net, q, i) ==
  /\ NodeAt(net, i).embedding # None
  /\ cosineSimilarity(q, NodeAt(net, i).embedding[1]) # None
  /\ cosineSimilarity(q, NodeAt(net, i).embedding[1])[1] > 7000

\* The positions in the store of the nodes above 0.7 with q.
Hits(net, q) == {i \in 1..Len(net) : Above(net, q, i)}

\* C1: findResonantNodes never returns an empty list; on a miss the store
\* grows by exactly one node, which has potential 1.0, the query vector, the
\* given text, no connections and lastFired 0 and is the sole result; on a
\* hit the store keeps its size and its keys.
C1_MissCreatesExactlyOneNode ==
  [][\A p \in Procs : Matching(p) =>
       LET q == call[p].embedding
           result == call'[p].resonantNodes
           last == Len(network')
       IN /\ Len(result) > 0
          /\ Hits(network, q) = {} =>
               /\ Len(network') = Len(network) + 1
               /\ result = <<IdAt(network', last)>>
               /\ NodeAt(network', last).potential = Scale
               /\ NodeAt(network', last).embedding = Some(q)
               /\ NodeAt(network', last).semanticContent = Some(call[p].text)
               /\ NodeAt(network', last).connections = <<>>
               /\ NodeAt(network', last).lastFired = 0
          /\ Hits(network, q) # {} =>
               /\ Len(network') = Len(network)
               /\ \A i \in 1..Len(network) : IdAt(network', i) = IdAt(network, i)
  ]_vars

\* Request p has called findResonantNodes and not yet anything after it.
Matched(p) ==
  \/ call[p].pc = "strengthen" /\ call[p].op = "learn"
  \/ /\ call[p].pc = "broad"
     /\ call[p].run.wavefront = call[p].resonantNodes
     /\ call[p].run.activatedPath = call[p].resonantNodes

\* C2 as stated: for every stored node with an embedding e, findResonantNodes
\* on a vector identical to e returns that node and creates no node.
C2_IdenticalVectorMatches ==
  [][\A p \in Procs : Matching(p) =>
       \A i \in 1..Len(network) :
          NodeAt(network, i).embedding = Some(call[p].embedding) =>
            /\ \E j \in 1..Len(call'[p].resonantNodes) :
                  call'[p].resonantNodes[j] = IdAt(network, i)
            /\ Len(network') = Len(network)
  ]_vars

\* C2, amended: for every stored node whose embedding e is not the zero
\* vector, findResonantNodes on a vector identical to e returns that node and
\* creates no node.
C2_IdenticalNonzeroVectorMatches ==
  [][\A p \in Procs : Matching(p) =>
       \A i \in 1..Len(network) :
          /\ NodeAt(network, i).embedding = Some(call[p].embedding)
          /\ Dot(call[p].embedding, call[p].embedding, 1) # 0
          => /\ \E j \in 1..Len(call'[p].resonantNodes) :
                   call'[p].resonantNodes[j] = IdAt(network, i)
             /\ Len(network') = Len(network)
             /\ \A k \in 1..Len(network) : IdAt(network', k) = IdAt(network, k)
  ]_vars

\* C2: a query with the nonzero vector of a node stored by an earlier process
\* has returned that node.
C2_Witness ==
  \E p \in Procs :
     /\ Matched(p)
     /\ Dot(call[p].embedding, call[p].embedding, 1) # 0
     /\ \E i \in 1..Len(network) :
          /\ NodeAt(network, i).embedding = Some(call[p].embedding)
          /\ IdAt(network, i)[1] < StartTime
          /\ \E j \in 1..Len(call[p].resonantNodes) :
                call[p].resonantNodes[j] = IdAt(network, i)

\* C3: on a hit the result is exactly the stored nodes whose similarity with
\* the query is strictly above 0.7, in store order; each returned node's
\* potential becomes its similarity and every other node is unchanged.
C3_ResultIsExactlyTheHits ==
  [][\A p \in Procs : Matching(p) /\ Hits(network, call[p].embedding) # {} =>
       LET q == call[p].embedding
           result == call'[p].resonantNodes
       IN /\ Len(result) = Cardinality(Hits(network, q))
          /\ \A j \in 1..Len(result) :
               /\ MapHas(network, result[j])
               /\ MapIndex(network, result[j]) \in Hits(network, q)
          /\ \A j, k \in 1..Len(result) :
               j < k => MapIndex(network, result[j]) < MapIndex(network, result[k])
          /\ Len(network') = Len(network)
          /\ \A i \in 1..Len(network) :
               IF i \in Hits(network, q)
               THEN network'[i] =
                      <<IdAt(network, i),
                        [NodeAt(network, i) EXCEPT !.potential =
                           cosineSimilarity(q, NodeAt(network, i).embedding[1])[1]]>>
               ELSE network'[i] = network[i]
  ]_vars

\* C3: a hit has left out a stored node whose similarity with the query is
\* exactly 0.7.
C3_Witness ==
  \E p \in Procs :
     /\ Matched(p)
     /\ Hits(network, call[p].embedding) # {}
     /\ \E i \in 1..Len(network) :
          /\ cosineSimilarity(call[p].embedding, NodeAt(network, i).embedding[1]) = Some(7000)
          /\ \A j \in 1..Len(call[p].resonantNodes) :
                call[p].resonantNodes[j] # IdAt(network, i)

\* ---------------------------------------------------------------- propagation

\* Request p is inside propagateActivation.
Propagating(p) == call[p].pc \in {"broad", "focused"}

\* The step of request p is one iteration of the loop of propagateActivation.
Dequeuing(p) ==
  /\ Propagating(p)
  /\ call'[p].pc = call[p].pc
  /\ Len(call[p].run.wavefront) > 0
  /\ call'[p].run # call[p].run

\* The sequence has no element twice.
NoDuplicates(seq) == \A i, j \in 1..Len(seq) : seq[i] = seq[j] => i = j

\* seq starts with prefix.
StartsWith(seq, prefix) ==
  Len(prefix) <= Len(seq) /\ SubSeq(seq, 1, Len(prefix)) = prefix

\* C4: the activation path is the seeds in the order given followed by the
\* nodes fired in this call in firing order, and holds no node twice: every
\* iteration only appends nodes that were not on the path and that fire now,
\* and no seed fires again.
C4_PathHasSeedsFirstAndNoNodeTwice ==
  /\ [](\A p \in Procs : Propagating(p) =>
          /\ StartsWith(call[p].run.activatedPath, call[p].resonantNodes)
          /\ NoDuplicates(call[p].run.activatedPath))
  /\ [][\A p \in Procs : Dequeuing(p) =>
          LET path == call[p].run.activatedPath
              after == call'[p].run.activatedPath
          IN /\ StartsWith(after, path)
             /\ \A k \in (Len(path) + 1)..Len(after) :
                  /\ \A j \in 1..Len(path) : path[j] # after[k]
                  /\ Node(network', after[k]).lastFired = now
                  /\ call'[p].run.wavefront[Len(call'[p].run.wavefront) - Len(after) + k]
                       = after[k]
             /\ \A j \in 1..Len(call[p].resonantNodes) :
                  Node(network', call[p].resonantNodes[j]).lastFired
                    = Node(network, call[p].resonantNodes[j]).lastFired
     ]_vars

\* C4: a propagation over a store with a cycle has ended with a path that
\* holds a node fired in this call.
C4_Witness ==
  \E p \in Procs :
     /\ Propagating(p)
     /\ Len(call[p].run.wavefront) = 0
     /\ Len(call[p].run.activatedPath) > Len(call[p].resonantNodes)
     /\ \E i, j \in 1..Len(network) :
          /\ MapHas(NodeAt(network, i).connections, IdAt(network, j))
          /\ MapHas(NodeAt(network, j).connections, IdAt(network, i))

\* The number of nodes request p has dequeued in its call of
\* propagateActivation: those put on the path and no longer in the wavefront.
Dequeued(p) == Len(call[p].run.activatedPath) - Len(call[p].run.wavefront)

\* C5: propagateActivation terminates: every node of the wavefront is on the
\* path, the path never holds more nodes than the store, every iteration
\* dequeues exactly one node and leaves the store's size alone, so that after
\* at most |store| iterations the wavefront is empty; the loop runs in the
\* request's synchronous code, which no other request interrupts.
C5_PropagationTerminates ==
  /\ [](\A p \in Procs : Propagating(p) =>
          /\ \A i \in 1..Len(call[p].run.wavefront) :
               \E j \in 1..Len(call[p].run.activatedPath) :
                  call[p].run.activatedPath[j] = call[p].run.wavefront[i]
          /\ Len(call[p].run.activatedPath) <= Len(network)
          /\ Dequeued(p) <= Len(network)
          /\ running = p)
  /\ [][\A p \in Procs : Dequeuing(p) =>
          /\ Len(network') = Len(network)
          /\ Dequeued(p)' = Dequeued(p) + 1
     ]_vars

\* C5: a propagation over a store whose nodes are all connected to each other
\* has ended after dequeuing every node of the store.
C5_Witness ==
  \E p \in Procs :
     /\ Propagating(p)
     /\ Len(call[p].run.wavefront) = 0
     /\ Len(network) >= 2
     /\ Dequeued(p) = Len(network)
     /\ \A i, j \in 1..Len(network) :
          i # j => MapHas(NodeAt(network, i).connections, IdAt(network, j))

\* ------------------------------------------------------------------ plasticity

Strengthening(p) == call[p].pc = "strengthen" /\ call'[p].pc = "idle"

InPath(path, id) == \E k \in 1..Len(path) : path[k] = id

Connected(net, a, b) == MapHas(Node(net, a).connections, b)

ConnectionOf(net, a, b) == MapGet(Node(net, a).connections, b)

\* delta of the pair (a, b): 0.1 * a.potential * b.potential.
Delta(net, a, b) == Mul(Mul(1000, Node(net, a).potential), Node(net, b).potential)

\* C7: strengthenPath gives every consecutive pair (a, b) of the path that was
\* unconnected in both directions the connections a->b and b->a, both with
\* plasticityRate 0.1, the forward weight tanh(0.1 + delta) and the reverse
\* weight tanh(0.1 + 0.7 * delta), delta = 0.1 * a.potential * b.potential;
\* for delta > 0 the reverse weight has grown strictly less than the forward.
C7_NewPairIsConnectedBothWays ==
  [][\A p \in Procs : Strengthening(p) =>
       LET path == PathToStrengthen(call[p])
       IN \A i \in 1..(Len(path) - 1) :
            LET a == path[i]
                b == path[i + 1]
                delta == Delta(network, a, b)
            IN (~Connected(network, a, b) /\ ~Connected(network, b, a)) =>
                 /\ Connected(network', a, b)
                 /\ Connected(network', b, a)
                 /\ ConnectionOf(network', a, b).plasticityRate = 1000
                 /\ ConnectionOf(network', b, a).plasticityRate = 1000
                 /\ ConnectionOf(network', a, b).weight = Tanh(1000 + delta)
                 /\ ConnectionOf(network', b, a).weight
                      = Tanh(1000 + Mul(delta, 7000))
                 /\ delta > 0 =>
                      ConnectionOf(network', b, a).weight - 1000
                        < ConnectionOf(network', a, b).weight - 1000
  ]_vars

\* C7: a call has strengthened a path whose first two nodes were created
\* unconnected by this process's file and are now connected both ways, the
\* reverse connection created in this process.
C7_Witness ==
  \E p \in Procs :
     LET path == PathToStrengthen(call[p])
     IN /\ call[p].pc = "idle"
        /\ call[p].outcome = "ok"
        /\ Len(path) >= 2
        /\ file = saveNetwork(EarlierStore)
        /\ calls = 1
        /\ Delta(network, path[1], path[2]) > 0
        /\ Connected(network, path[1], path[2])
        /\ Connected(network, path[2], path[1])
        /\ ConnectionOf(network, path[2], path[1]).lastFired >= StartTime
        /\ ConnectionOf(network, path[2], path[1]).weight
             < ConnectionOf(network, path[1], path[2]).weight

\* C8: one strengthenPath call multiplies by 0.99, once, the weight of every
\* connection of a path node to a node outside the path; a connection to a
\* node of the path is not decayed (it keeps its weight, or has the tanh
\* update of its pair); nodes outside the path are not changed.
C8_DecayOnlyOutOfPathTargets ==
  [][\A p \in Procs : Strengthening(p) =>
       LET path == PathToStrengthen(call[p])
       IN /\ MapKeys(network') = MapKeys(network)
          /\ \A n \in 1..Len(network) :
               ~InPath(path, IdAt(network, n)) => NodeAt(network', n) = NodeAt(network, n)
          /\ \A k \in 1..Len(path) :
               LET id == path[k]
                   before == Node(network, id).connections
                   after == Node(network', id).connections
               IN /\ \A j \in 1..Len(after) :
                       ~InPath(path, after[j][1]) => MapHas(before, after[j][1])
                  /\ \A j \in 1..Len(before) :
                       LET t == before[j][1]
                           w == before[j][2].weight
                       IN /\ MapHas(after, t)
                          /\ MapGet(after, t).weight =
                               IF ~InPath(path, t) THEN Mul(w, 9900)
                               ELSE IF k < Len(path) /\ path[k + 1] = t
                                 THEN Tanh(w + Delta(network, id, t))
                               ELSE IF k > 1 /\ path[k - 1] = t
                                 THEN Tanh(w + Mul(Delta(network, t, id), 7000))
                               ELSE w
  ]_vars

\* C8: a call on the store in which an earlier process connected two nodes
\* has strengthened a path of one of them: its connection to the other has
\* 0.99 of the stored weight, the other node is as stored.
C8_Witness ==
  \E p \in Procs :
     LET path == PathToStrengthen(call[p])
     IN /\ call[p].pc = "idle"
        /\ call[p].outcome = "ok"
        /\ calls = 1
        /\ file = saveNetwork(EarlierConnectedStore)
        /\ Len(path) = 1
        /\ \E n \in 1..Len(network) :
             LET t == IdAt(network, n)
             IN /\ t # path[1]
                /\ MapHas(EarlierConnectedStore, path[1])
                /\ MapHas(EarlierConnectedStore, t)
                /\ Connected(EarlierConnectedStore, path[1], t)
                /\ Connected(network, path[1], t)
                /\ ConnectionOf(network, path[1], t).weight
                     = Mul(ConnectionOf(EarlierConnectedStore, path[1], t).weight, 9900)
                /\ NodeAt(network, n).connections
                     = Node(EarlierConnectedStore, t).connections

\* ----------------------------------------------------------------- persistence

\* C9: loading into an empty store the record saveNetwork writes for the
\* store gives the same node ids and, for every node, the same fields.
C9_RoundTripIsLossless == loadNetwork(<<>>, saveNetwork(network)) = network

\* The record is missing, does not parse, or has an entry that cannot be
\* rebuilt into a node.
Malformed(f) ==
  \/ f.kind # "json"
  \/ \E i \in 1..Len(f.entries) : f.entries[i][2] = None

\* C10: after initialization on a missing or malformed record the store is
\* empty, wherever in the record the error is.
C10_MalformedRecordLeavesStoreEmpty ==
  (isInitialized /\ calls = 0 /\ Malformed(file)) => network = <<>>

\* ------------------------------------------------------------------ think

Suspended(p) == call[p].pc \in {"embedding", "generating"}

\* C12: while a request is suspended on the embedding or the completion
\* service no step changes the store, so that its steps run without a store
\* mutation by another request between them.
C12_NoMutationWhileSuspended ==
  [][\A p \in Procs : Suspended(p) => network' = network]_vars

C14_CreatedIdIsFree ==
  [][\A p \in Procs : (Matching(p) /\ Hits(network, call[p].embedding) = {}) =>
       /\ ~MapHas(network, call'[p].resonantNodes[1])
       /\ \A i \in 1..Len(network) :
            /\ IdAt(network', i) = IdAt(network, i)
            /\ NodeAt(network', i).embedding = NodeAt(network, i).embedding
            /\ NodeAt(network', i).semanticContent = NodeAt(network, i).semanticContent
  ]_vars

\* Every key of every connections map is the id of a stored node.
ConnectionsLeadToNodes(net) ==
  \A i \in 1..Len(net) :
     \A j \in 1..Len(NodeAt(net, i).connections) :
        MapHas(net, NodeAt(net, i).connections[j][1])

\* Every node of net is in net2 with its embedding, its content and at least
\* its connections.
KeepsRecords(net, net2) ==
  \A i \in 1..Len(net) :
     /\ MapHas(net2, IdAt(net, i))
     /\ Node(net2, IdAt(net, i)).embedding = NodeAt(net, i).embedding
     /\ Node(net2, IdAt(net, i)).semanticContent = NodeAt(net, i).semanticContent
     /\ \A j \in 1..Len(NodeAt(net, i).connections) :
          MapHas(Node(net2, IdAt(net, i)).connections, NodeAt(net, i).connections[j][1])

\* C15: every key of every connections map is the id of a node in the store,
\* and no node and no connection is removed once created.
C15_ConnectionsValidAndNothingRemoved ==
  /\ [](ConnectionsLeadToNodes(network))
  /\ [][KeepsRecords(network, network')]_vars

\* ---------------------------------------------------------------- propagation

\* C16: propagation reaches a node only over a connection from a node of the
\* path: every node of the path after the seeds is the target of a
\* connection of a node dequeued before it was reached, and an iteration
\* changes, besides the dequeued node, only targets of its connections; when
\* the dequeued node has no connections the path stays as it is and every
\* other node keeps its potential and lastFired.
C16_ReachedOnlyOverConnections ==
  /\ [](\A p \in Procs : Propagating(p) =>
          LET path == call[p].run.activatedPath
          IN \A k \in (Len(call[p].resonantNodes) + 1)..Len(path) :
               \E j \in 1..Dequeued(p) :
                  j < k /\ Connected(network, path[j], path[k]))
  /\ [][\A p \in Procs : Dequeuing(p) =>
          LET current == Head(call[p].run.wavefront)
              path == call[p].run.activatedPath
              after == call'[p].run.activatedPath
          IN /\ \A k \in (Len(path) + 1)..Len(after) :
                  Connected(network, current, after[k])
             /\ \A n \in 1..Len(network) :
                  (IdAt(network, n) # current
                     /\ ~Connected(network, current, IdAt(network, n))) =>
                  NodeAt(network', n) = NodeAt(network, n)
             /\ Node(network, current).connections = <<>> => after = path
     ]_vars

\* C16: a broad propagation seeded at one node without connections, in a
\* store that holds other nodes, has returned the seed alone.
C16_Witness ==
  \E p \in Procs :
     /\ call[p].pc = "broad"
     /\ Len(call[p].run.wavefront) = 0
     /\ Len(call[p].resonantNodes) = 1
     /\ call[p].run.activatedPath = call[p].resonantNodes
     /\ Node(network, call[p].resonantNodes[1]).connections = <<>>
     /\ Len(network) > 1
     /\ \E n \in 1..Len(network) : NodeAt(network, n).connections # <<>>

\* Request p's step is the iteration of the broad propagation that dequeues
\* its single seed, first of all.
DequeuingSeed(p) ==
  /\ Dequeuing(p)
  /\ call[p].pc = "broad"
  /\ Len(call[p].resonantNodes) = 1
  /\ Dequeued(p) = 0

\* C17 as stated: in a broad propagation seeded at A, for every connection
\* A->B, B's potential rises by at least A.potential * weight_AB * 0.8, the
\* potential and the weight taken at the start of the call.
C17_NeighbourRisesBySpreadShare ==
  [][\A p \in Procs : DequeuingSeed(p) =>
       LET A == Head(call[p].run.wavefront)
           a == Node(network, A)
       IN \A j \in 1..Len(a.connections) :
            LET B == a.connections[j][1]
                w == a.connections[j][2].weight
            IN (B # A /\ a.potential > 0 /\ w > 0) =>
                 Node(network', B).potential - Node(network, B).potential
                   >= Mul(Mul(a.potential, w), 8000)
  ]_vars

\* C17: in a broad propagation the iteration that dequeues A adds to the
\* potential of every unvisited neighbour B nothing when A is refractory, and
\* otherwise a + tanh(a) when the chaos threshold was between 1.0 and 1.5 at
\* the start of the call and a when it was not, a = (0.9 * A.potential) *
\* weight_AB * 0.8; with the bonus and A.potential, weight_AB > 0 that is at
\* least A.potential * weight_AB * 0.8.
C17_NeighbourRisesUnlessRefractory ==
  [][\A p \in Procs : (Dequeuing(p) /\ call[p].pc = "broad") =>
       LET A == Head(call[p].run.wavefront)
           a == Node(network, A)
           refractory == now - a.lastFired < a.refractoryPeriod
           edge == chaosThreshold > 10000 /\ chaosThreshold < 15000
       IN /\ Dequeued(p) = 0 => call[p].run.isEdgeOfChaos = edge
          /\ \A j \in 1..Len(a.connections) :
               LET B == a.connections[j][1]
                   w == a.connections[j][2].weight
                   base == Mul(Mul(Mul(a.potential, 9000), w), 8000)
                   rise == Node(network', B).potential - Node(network, B).potential
               IN (B \notin call[p].run.visited) =>
                    /\ rise = IF refractory THEN 0
                              ELSE IF call[p].run.isEdgeOfChaos THEN base + Tanh(base)
                              ELSE base
                    /\ (~refractory /\ call[p].run.isEdgeOfChaos
                          /\ a.potential > 0 /\ w > 0) =>
                         rise >= Mul(Mul(a.potential, w), 8000)
  ]_vars

\* C17: a broad propagation seeded at one node that is not refractory has
\* dequeued it and fired a neighbour over the connection to it.
C17_Witness ==
  \E p \in Procs :
     /\ call[p].pc = "broad"
     /\ Len(call[p].resonantNodes) = 1
     /\ Dequeued(p) = 1
     /\ Len(call[p].run.activatedPath) = 2
     /\ now - Node(network, call[p].run.activatedPath[1]).lastFired
          >= Node(network, call[p].run.activatedPath[1]).refractoryPeriod
     /\ Connected(network, call[p].run.activatedPath[1], call[p].run.activatedPath[2])
     /\ Node(network, call[p].run.activatedPath[2]).lastFired = now

\* ------------------------------------------------------------------ plasticity

\* C18: strengthenPath leaves the connection a->b of every consecutive pair
\* (a, b) of the path with positive potentials with a weight strictly greater
\* than before the call, or than 0.1 when the call created the connection.
C18_UsedConnectionGrows ==
  [][\A p \in Procs : Strengthening(p) =>
       LET path == PathToStrengthen(call[p])
       IN \A i \in 1..(Len(path) - 1) :
            LET a == path[i]
                b == path[i + 1]
            IN (Node(network, a).potential > 0 /\ Node(network, b).potential > 0) =>
                 ConnectionOf(network', a, b).weight >
                   IF Connected(network, a, b) THEN ConnectionOf(network, a, b).weight
                   ELSE 1000
  ]_vars

\* ------------------------------------------------------------------ metrics

\* The duplicate-free paths of up to n nodes of the store.
MaxPath == 3
RECURSIVE PathsUpTo(_, _)
PathsUpTo(net, n) ==
  IF n = 0 THEN {<<>>}
  ELSE LET shorter == PathsUpTo(net, n - 1)
       IN shorter \cup
          {Append(path, id) : <<path, id>> \in
             {pair \in shorter \X MapKeys(net) :
                Len(pair[1]) = n - 1 /\ ~InPath(pair[1], pair[2])}}
PathsOf(net) == PathsUpTo(net, MaxPath)

\* Request p is about to call extractPattern, which measures the coherence of
\* the path its propagation has returned.
Measuring(p) == Propagating(p) /\ call[p].run.wavefront = <<>>

\* The positions i of the path whose pair path[i] -> path[i + 1] has a forward
\* connection.
ForwardPairs(net, path) ==
  {i \in 1..(Len(path) - 1) : Connected(net, path[i], path[i + 1])}

RECURSIVE SumOfStrengths(_, _, _)
\* The sum of |weight| over the forward connections at the positions S.
SumOfStrengths(net, path, S) ==
  IF S = {} THEN 0
  ELSE LET i == CHOOSE k \in S : TRUE
           w == ConnectionOf(net, path[i], path[i + 1]).weight
       IN (IF w < 0 THEN -w ELSE w) + SumOfStrengths(net, path, S \ {i})

\* C19: whenever think measures a path, calculateCoherence gives on every
\* path over the store 1.0 for a path of fewer than two nodes, 0 for
\* a longer path without a forward connection between consecutive nodes, and
\* otherwise the mean of |weight| over the consecutive pairs that have one;
\* the result is in [0, 1]; think's use of it changes no node.
C19_CoherenceIsMeanOverExistingPairs ==
  /\ [](\A path \in (IF \E p \in Procs : Measuring(p)
                     THEN PathsOf(network) ELSE {}) :
          LET pairs == ForwardPairs(network, path)
              coherence == calculateCoherence(network, path)
          IN /\ coherence >= 0
             /\ coherence <= Scale
             /\ coherence =
                  IF Len(path) < 2 THEN Scale
                  ELSE IF pairs = {} THEN 0
                  ELSE SumOfStrengths(network, path, pairs) \div Cardinality(pairs))
  /\ [][\A p \in Procs :
          (Propagating(p) /\ call'[p].pc # call[p].pc) => network' = network]_vars

\* C19: a think call is about to measure its path on a store that holds a
\* path of three nodes of which one consecutive pair has a forward connection
\* and the other has none.
C19_Witness ==
  /\ \E p \in Procs : Measuring(p)
  /\ \E path \in PathsOf(network) :
       /\ Len(path) = 3
       /\ Cardinality(ForwardPairs(network, path)) = 1
       /\ calculateCoherence(network, path) > 0
       /\ calculateCoherence(network, path) < Scale

\* ---------------------------------------------------------------- propagation

\* C20: every iteration of propagateActivation multiplies the potential of
\* the dequeued node by params.decay, refractory or not; a dequeued node with
\* now - lastFired < refractoryPeriod changes no other node and adds nothing
\* to the path or the wavefront, and stays in the path.
C20_RefractoryNodeDecaysAndStaysSilent ==
  [][\A p \in Procs : Dequeuing(p) =>
       LET current == Head(call[p].run.wavefront)
           node == Node(network, current)
       IN /\ Node(network', current).potential
               = Mul(node.potential, call[p].run.params.decay)
          /\ now - node.lastFired < node.refractoryPeriod =>
               /\ \A n \in 1..Len(network) :
                    IdAt(network, n) # current => NodeAt(network', n) = NodeAt(network, n)
               /\ Node(network', current).lastFired = node.lastFired
               /\ call'[p].run.activatedPath = call[p].run.activatedPath
               /\ call'[p].run.wavefront = Tail(call[p].run.wavefront)
               /\ call'[p].run.visited = call[p].run.visited
               /\ InPath(call'[p].run.activatedPath, current)
  ]_vars

\* C20: a propagation has dequeued its seed, which is refractory and has a
\* connection to a node that is not on the path, and has ended with the seed
\* alone on the path.
C20_Witness ==
  \E p \in Procs :
     /\ Propagating(p)
     /\ Len(call[p].resonantNodes) = 1
     /\ call[p].run.activatedPath = call[p].resonantNodes
     /\ call[p].run.wavefront = <<>>
     /\ LET node == Node(network, call[p].resonantNodes[1])
        IN /\ now - node.lastFired < node.refractoryPeriod
           /\ \E j \in 1..Len(node.connections) :
                /\ MapHas(network, node.connections[j][1])
                /\ ~InPath(call[p].run.activatedPath, node.connections[j][1])
                /\ node.connections[j][2].weight > 0

\* ---------------------------------------------------------------- determinism

\* Request p is about to run the first iteration of its broad propagation.
StartingBroad(p) == call[p].pc = "broad" /\ Dequeued(p) = 0

\* The path and the store after propagateActivation from the seeds with the
\* broad parameters followed by strengthenPath on the path, on engine eng.
Outcome(eng, seeds, time) ==
  LET st == propagateActivation(eng, seeds, BroadParams, time)
  IN [ path |-> st.run.activatedPath,
       network |-> strengthenPath(st.eng.network, st.run.activatedPath, time) ]

\* An engine just constructed around a copy of the store.
CopyOf(net) ==
  [network |-> net, coherenceScore |-> 0, chaosThreshold |-> InitialChaosThreshold]

\* An engine around a copy of the store, in the given chaos regime.
CopyInRegime(net, edge) ==
  [network |-> net, coherenceScore |-> 0,
   chaosThreshold |-> IF edge THEN InitialChaosThreshold ELSE Scale]

\* C21 as stated: a copy of the store given the same seeds, parameters and
\* clock yields the same path and the same potentials, lastFired values and
\* weights after propagateActivation and strengthenPath.
C21_SameStoreSameOutcome ==
  \A p \in Procs : StartingBroad(p) =>
     Outcome(Eng, call[p].resonantNodes, now)
       = Outcome(CopyOf(network), call[p].resonantNodes, now)

\* C21: a copy of the store whose engine is in the same chaos regime (chaos
\* threshold strictly between 1.0 and 1.5, or not) yields, given the same
\* seeds, parameters and clock, the same path and the same potentials,
\* lastFired values and weights after propagateActivation and strengthenPath.
C21_SameStoreAndRegimeSameOutcome ==
  \A p \in Procs : StartingBroad(p) =>
     Outcome(Eng, call[p].resonantNodes, now)
       = Outcome(CopyInRegime(network, chaosThreshold > 10000 /\ chaosThreshold < 15000),
                 call[p].resonantNodes, now)

\* C21: a broad propagation is about to start, on an engine whose chaos
\* threshold has fallen to 1.0 or below, from a seed with a connection to a
\* node that is not a seed.
C21_Witness ==
  \E p \in Procs :
     /\ StartingBroad(p)
     /\ chaosThreshold <= 10000
     /\ \E i \in 1..Len(call[p].resonantNodes) :
          \E n \in 1..Len(network) :
             /\ Connected(network, call[p].resonantNodes[i], IdAt(network, n))
             /\ ~InPath(call[p].resonantNodes, IdAt(network, n))

\* ----------------------------------------------------------------- persistence

\* C22: learn writes the file exactly when the call has created the node that
\* brings the number of learned concepts to a multiple of 10: a learn call
\* that created no node, or after which the number is no multiple of 10,
\* leaves the file as it is.
C22_SavedAtEveryTenthConceptOnly ==
  [][\A p \in Procs : (Strengthening(p) /\ call[p].op = "learn") =>
       IF call[p].created /\ Len(network') % 10 = 0
       THEN file' = saveNetwork(network')
       ELSE file' = file
  ]_vars

\* ---------------------------------------------------------------- front ends

\* The front ends: the HTTP route, the MCP tools, the command line.
FrontEnds == {"http", "mcp", "cli"}

\* The text of a request: missing, or a string.
Arguments == {None} \cup {Some(t) : t \in Texts}

\* !argument of the route, !text and !query of the tools.
Falsy(a) == a = None \/ a[1] = ""

\* A request answered without a call of learn or think.
Answered(outcome) == [IdleCall EXCEPT !.outcome = outcome]

\* A request that called learn or think, up to the request to the embedding
\* service.
Entered(op, text) == [IdleCall EXCEPT !.pc = "embedding", !.op = op, !.text = text]

\* The files networkPath may hold when a front end starts.
FrontEndFiles == {MissingFile, saveNetwork(EarlierConnectedStore)}

\* A process of one of the front ends, networkInstance null.
InitFrontEnd ==
  /\ network = <<>>
  /\ coherenceScore = 0
  /\ chaosThreshold = InitialChaosThreshold
  /\ isInitialized = FALSE
  /\ file \in FrontEndFiles
  /\ now = StartTime
  /\ calls = 0
  /\ running = 0
  /\ call = [p \in Procs |-> IdleCall]
  /\ process \in {[frontEnd |-> f, constructed |-> 0, initializations |-> 0] :
                    f \in FrontEnds}

\* getNetworkInstance that constructs and initializes an engine at every
\* call.
GetNetworkInstanceAnew ==
  /\ process' = [process EXCEPT !.constructed = @ + 1, !.initializations = @ + 1]
  /\ network' = initialize(<<>>, file)
  /\ coherenceScore' = 0
  /\ chaosThreshold' = InitialChaosThreshold
  /\ isInitialized' = TRUE

\* getNetworkInstance(): the first call constructs the engine and runs its
\* initialize, which has no await and ends with isInitialized true; later
\* calls return the same engine.
GetNetworkInstance ==
  IF process.constructed = 0
  THEN /\ process' = [process EXCEPT !.constructed = @ + 1, !.initializations = @ + 1]
       /\ network' = initialize(<<>>, file)
       /\ coherenceScore' = 0
       /\ chaosThreshold' = InitialChaosThreshold
       /\ isInitialized' = TRUE
  ELSE UNCHANGED <<process, network, coherenceScore, chaosThreshold, isInitialized>>

\* POST of the route, up to its first await on a service.
Post(p) ==
  \E command \in {None, Some("learn"), Some("think"), Some("other")},
     argument \in Arguments :
    /\ process.frontEnd = "http"
    /\ running = 0
    /\ call[p].pc = "idle"
    /\ calls < MaxCalls
    /\ calls' = calls + 1
    /\ IF command = None \/ Falsy(argument)
       THEN /\ call' = [call EXCEPT ![p] = Answered("rejected")]
            /\ UNCHANGED <<process, network, coherenceScore, chaosThreshold,
                           isInitialized>>
       ELSE /\ GetNetworkInstance
            /\ call' = [call EXCEPT ![p] =
                          IF command[1] \in {"learn", "think"}
                          THEN Entered(command[1], argument[1])
                          ELSE Answered("rejected")]
    /\ UNCHANGED <<file, now, running>>

\* The tool handler of the MCP server, up to its first await on a service.
CallTool(p) ==
  \E name \in {"learn_concept", "query_network", "get_network_status", "other"},
     text \in Arguments :
    /\ process.frontEnd = "mcp"
    /\ running = 0
    /\ call[p].pc = "idle"
    /\ calls < MaxCalls
    /\ calls' = calls + 1
    /\ GetNetworkInstance
    /\ call' = [call EXCEPT ![p] =
                  CASE name = "get_network_status" -> Answered("ok")
                    [] name = "other" -> Answered("rejected")
                    [] Falsy(text) -> Answered("rejected")
                    [] name = "learn_concept" -> Entered("learn", text[1])
                    [] OTHER -> Entered("think", text[1])]
    /\ UNCHANGED <<file, now, running>>

\* runCommand, up to the request to the embedding service: a new engine is
\* constructed and initialized for the command.
RunCommand(p) ==
  \E command \in {"learn", "think"}, argument \in Texts :
    /\ process.frontEnd = "cli"
    /\ running = 0
    /\ \A q \in Procs : call[q].pc = "idle"
    /\ calls < MaxCalls
    /\ calls' = calls + 1
    /\ network' = initialize(<<>>, file)
    /\ coherenceScore' = 0
    /\ chaosThreshold' = InitialChaosThreshold
    /\ isInitialized' = TRUE
    /\ call' = [call EXCEPT ![p] = Entered(command, argument)]
    /\ UNCHANGED <<file, now, running, process>>

\* The front end calls saveNetwork when the call returns: the route and the
\* tools after learn, runCommand after learn and after think.
SavesAfter(frontEnd, op) == frontEnd = "cli" \/ op = "learn"

\* strengthenPath, the rest of learn or think, and the rest of the front
\* end's handler.
Respond(p) ==
  /\ running = p
  /\ call[p].pc = "strengthen"
  /\ network' = strengthenPath(network, PathToStrengthen(call[p]), now)
  /\ file' = IF \/ SavesAfter(process.frontEnd, call[p].op)
                \/ call[p].op = "learn" /\ Len(network') % SaveEvery = 0
             THEN saveNetwork(network') ELSE file
  /\ running' = 0
  /\ call' = [call EXCEPT ![p].pc = "idle", ![p].outcome = "ok"]
  /\ UNCHANGED <<process, coherenceScore, chaosThreshold, isInitialized, now, calls>>

\* One process of a front end, its requests arriving while others are
\* suspended on a service, all within one refractory period.
NextFrontEnd ==
  \/ \E p \in Procs : Post(p)
  \/ \E p \in Procs : CallTool(p)
  \/ \E p \in Procs : RunCommand(p)
  \/ \E p \in Procs : EmbedReturn(p)
  \/ \E p \in Procs : EmbedFail(p)
  \/ \E p \in Procs : FindResonantNodes(p)
  \/ \E p \in Procs : Propagate(p)
  \/ \E p \in Procs : ExtractBroad(p)
  \/ \E p \in Procs : ExtractFocused(p)
  \/ \E p \in Procs : GenerateReturn(p)
  \/ \E p \in Procs : GenerateFail(p)
  \/ \E p \in Procs : Respond(p)

SpecFrontEnd == InitFrontEnd /\ [][NextFrontEnd]_vars

\* C23: no request with empty or missing text is inside learn or think: every
\* front end answers it without calling the engine, so it never waits on the
\* embedding service and never reaches the code that changes the store.
C23_EmptyTextNeverEntersEngine ==
  \A p \in Procs : call[p].pc # "idle" => call[p].text # ""

\* The empty text is rejected by the route and by the tools.
C23_RejectedByServers ==
  process.frontEnd \in {"http", "mcp"} => C23_EmptyTextNeverEntersEngine

\* ------------------------------------------------------- failed completion

\* Every connection of net2 is a connection of net with the same weight.
NoConnectionMadeOrReweighted(net, net2) ==
  \A i \in 1..Len(net2) :
     \A j \in 1..Len(NodeAt(net2, i).connections) :
        LET a == IdAt(net2, i)
            b == NodeAt(net2, i).connections[j][1]
        IN /\ MapHas(net, a)
           /\ Connected(net, a, b)
           /\ ConnectionOf(net, a, b).weight = NodeAt(net2, i).connections[j][2].weight

\* The step of request p is the failure of its completion request.
FailingToGenerate(p) == call[p].pc = "generating" /\ call'[p].outcome = "error"

\* C24: a think call reaches strengthenPath only from the return of the
\* completion service with a response; no other step of the call creates a
\* connection or changes a connection weight, and the failure of the
\* completion request ends the call with the store as matching and
\* propagation left it (the created node, the potentials and the lastFired
\* values stay).
C24_FailedThinkStrengthensNothing ==
  [][\A p \in Procs : call[p].op = "think" =>
       /\ (call'[p].pc = "strengthen" /\ call[p].pc # "strengthen") =>
            (call[p].pc = "generating" /\ call'[p].outcome = "none")
       /\ ~Strengthening(p) => NoConnectionMadeOrReweighted(network, network')
       /\ FailingToGenerate(p) =>
            /\ network' = network
            /\ call'[p].pc = "idle"
  ]_vars

\* A think call that created a node for its input, propagated from it and then
\* failed at the completion service has ended: the node is in the store with
\* the potential the propagation left, unconnected, next to the earlier nodes.
C24_Witness ==
  /\ call[1].op = "think"
  /\ call[1].pc = "idle"
  /\ call[1].outcome = "error"
  /\ call[1].model # "none"
  /\ call[1].created
  /\ Len(network) > 1
  /\ MapHas(network, call[1].resonantNodes[1])
  /\ Node(network, call[1].resonantNodes[1]).potential = Mul(Scale, BroadParams.decay)
  /\ Node(network, call[1].resonantNodes[1]).connections = <<>>

\* ------------------------------------------------------------ reach of a call

\* The store of an earlier process that learned "water" and "fire", connected
\* them by "steam", learned "late" and connected "fire" and "late" by "smoke",
\* which resonates with these two only: a chain water - fire - late.
ChainStore ==
  Learned(Learned(EarlierConnectedStore, "late", StartTime - 200, 0),
          "smoke", StartTime - 100, 0)

\* The engine constructed on the file of the chain.
InitChain ==
  /\ network = <<>>
  /\ coherenceScore = 0
  /\ chaosThreshold = InitialChaosThreshold
  /\ isInitialized = FALSE
  /\ file = saveNetwork(ChainStore)
  /\ now = StartTime
  /\ calls = 0
  /\ running = 0
  /\ call = [p \in Procs |-> IdleCall]
  /\ process = EngineProcess

SpecChain == InitChain /\ [][Next]_vars

\* The nodes request p's propagation has fired: the path after the seeds.
FiredInCall(p) ==
  { call[p].run.activatedPath[k] :
      k \in (Len(call[p].resonantNodes) + 1)..Len(call[p].run.activatedPath) }

\* Less than a refractory period has passed since the first node fired in
\* request p's propagation, and so since the propagation began.
ClockWithinPeriod(p) ==
  Len(call[p].run.activatedPath) > Len(call[p].resonantNodes) =>
    LET first == Node(network, call[p].run.activatedPath[Len(call[p].resonantNodes) + 1])
    IN now - first.lastFired < first.refractoryPeriod

\* A seed of request p has a connection to the node id.
NeighbourOfSeed(p, id) ==
  \E k \in 1..Len(call[p].resonantNodes) :
     /\ MapHas(network, call[p].resonantNodes[k])
     /\ Connected(network, call[p].resonantNodes[k], id)

IdOf(net, text) ==
  IdAt(net, CHOOSE i \in 1..Len(net) : NodeAt(net, i).semanticContent = Some(text))

Arriving == calls' # calls

\* C26: getNetworkInstance constructs at most one engine in a process and that
\* engine's initialize runs at most once, in the step that constructs it; a
\* request that arrives once the instance exists, whatever the other requests
\* are doing, gets that instance as it is: nothing is constructed,
\* initialized or loaded from the file again.
C26_OneInstanceInitializedOnce ==
  /\ [](/\ process.constructed <= 1
        /\ process.initializations <= 1
        /\ process.constructed = 1 => isInitialized)
  /\ [][(Arriving /\ process.constructed = 1) =>
          UNCHANGED <<process, network, coherenceScore, chaosThreshold, isInitialized>>
     ]_vars

\* The MCP server has answered a think request, which left changes in the
\* store that are not in the file, and a second request has arrived and
\* waits on the embedding service: one instance, initialized once.
C26_Witness ==
  /\ process = [frontEnd |-> "mcp", constructed |-> 1, initializations |-> 1]
  /\ \E p, q \in Procs :
       /\ call[p].op = "think"
       /\ call[p].outcome = "ok"
       /\ call[q].pc = "embedding"
  /\ network # initialize(<<>>, file)

\* ------------------------------------------------------------------ symmetry

\* The connection relation of the store is symmetric and irreflexive.
SymmetricIrreflexive(net) ==
  \A i \in 1..Len(net) :
     \A j \in 1..Len(NodeAt(net, i).connections) :
        LET a == IdAt(net, i)
            b == NodeAt(net, i).connections[j][1]
        IN /\ a # b
           /\ MapHas(net, b)
           /\ Connected(net, b, a)

\* The number of learn calls of the front end below.
MaxLearns == 4

\* The engine constructed without a file: the empty store.
InitBurst == Init /\ file = MissingFile

\* learn(text) up to the request to the embedding service.
LearnNext(p) ==
  \E text \in Texts :
    /\ running = 0
    /\ call[p].pc = "idle"
    /\ calls < MaxLearns
    /\ calls' = calls + 1
    /\ network' = IF isInitialized THEN network ELSE initialize(network, file)
    /\ isInitialized' = TRUE
    /\ call' = [call EXCEPT ![p] = [IdleCall EXCEPT !.pc = "embedding", !.op = "learn",
                                                    !.text = text]]
    /\ UNCHANGED <<process, coherenceScore, chaosThreshold, file, now, running>>

\* A front end that learns one text after the other within one millisecond,
\* every call served to its end.
NextBurst ==
  \/ \E p \in Serial : LearnNext(p)
  \/ \E p \in Serial : EmbedReturn(p)
  \/ \E p \in Serial : FindResonantNodes(p)
  \/ \E p \in Serial : StrengthenPath(p)

SpecBurst == InitBurst /\ [][NextBurst]_vars

\* C27: from the empty store on, the connection relation is symmetric and
\* irreflexive: a -> b exists exactly when b -> a exists, and no node has a
\* connection to itself.
C27_ConnectionsSymmetricIrreflexive == SymmetricIrreflexive(network)

\* ------------------------------------------------------- single matches

\* No node of the store has a connection.
NoConnections(net) == \A i \in 1..Len(net) : NodeAt(net, i).connections = <<>>

\* The step of request p is the choice of the system after the System 1
\* propagation.
Choosing(p) == call[p].pc = "broad" /\ call'[p].pc # "broad"

\* C28: in a store without connections, a connection comes into existence only
\* in a call of strengthenPath of a request whose match returned two or more
\* nodes; as long as there is none, the propagation path of a request with a
\* single seed is that seed, and think on it takes the fast branch (coherence
\* 1.0 for a path of one node).
C28_ConnectionsOnlyFromMultipleMatches ==
  /\ [][(isInitialized /\ NoConnections(network) /\ ~NoConnections(network')) =>
          \E p \in Procs : Strengthening(p) /\ Len(call[p].resonantNodes) >= 2
     ]_vars
  /\ [](\A p \in Procs :
          (NoConnections(network) /\ Propagating(p) /\ Len(call[p].resonantNodes) = 1) =>
             call[p].run.activatedPath = call[p].resonantNodes)
  /\ [][\A p \in Procs :
          (NoConnections(network) /\ Choosing(p) /\ Len(call[p].resonantNodes) = 1) =>
             /\ calculateCoherence(network, call[p].run.activatedPath) = Scale
             /\ call'[p].pc = "generating"
             /\ call'[p].model = "fast"
             /\ call'[p].system1Path = call[p].resonantNodes
     ]_vars

\* From the empty store, two calls that each matched or created one node have
\* ended, the second a think answered by the fast branch: two nodes, no
\* connection.
C28_Witness ==
  /\ file.kind = "missing"
  /\ calls = 2
  /\ call[1].op = "think"
  /\ call[1].outcome = "ok"
  /\ call[1].model = "fast"
  /\ Len(call[1].resonantNodes) = 1
  /\ call[1].system1Path = call[1].resonantNodes
  /\ Len(network) = 2
  /\ NoConnections(network)

====
